---- MODULE Spec2Model ----
(***************************************************************************)
(* Model of pkg/plugin/plugin.go: JsonDatasource.QueryData fans a batch of *)
(* queries out to one goroutine per query, each running                    *)
(* createMetricRequest -> makeHttpRequest -> parseQueryResponse, writing   *)
(* its DataResponse into the shared responses map and signalling a         *)
(* sync.WaitGroup on which QueryData waits.                                *)
(*                                                                         *)
(* Spec follows one QueryData call, SpecConcurrent MaxCalls calls running  *)
(* at once, FairSpec is Spec with the scheduling the Go runtime and the    *)
(* client timeout give.                                                    *)
(***************************************************************************)
EXTENDS Integers, Sequences, FiniteSets, TLC

VARIABLES
  im,         \* dynamic type of the instances ds.im hands out
  settings,   \* instance.settings.URL
  fatal,      \* the Go runtime threw "fatal error: concurrent map writes"
  pc,         \* pc[c]: position of QueryData call c
  got,        \* got[c]: what ds.im.Get gave call c: "none" yet, "err", or an instance type
  req,        \* req[c]: req.Queries of call c
  cancelled,  \* cancelled[c]: ctx of call c is done
  wg,         \* wg[c]: counter of the call's sync.WaitGroup
  units,      \* units[c]: the goroutines spawned so far, in spawn order
  responses   \* responses[c]: responses.Responses, RefID -> DataResponse

vars == <<im, settings, fatal, pc, got, req, cancelled, wg, units, responses>>

----------------------------------------------------------------------------
\* Bounds of the model.
MaxCalls == 2     \* QueryData calls in one behaviour
MaxUnits == 2     \* queries over all calls of one behaviour

Calls == 1 .. MaxCalls

\* Inputs.
RefIDs == {"A", "B"}
ValidJSON == "[{\"target\":\"upper_50\"}]"
JSONs == {ValidJSON, "{"}
\* The time range of the query with identifier r: one range per identifier,
\* From # To and different identifiers asking for different ranges.
TimeRangeOf(r) == IF r = "A" THEN [From |-> 1, To |-> 2] ELSE [From |-> 3, To |-> 4]
Queries == {[RefID |-> r, JSON |-> j, TimeRange |-> TimeRangeOf(r)] : r \in RefIDs, j \in JSONs}
GoodURL == "http://upstream"
URLs == {GoodURL, "http://%zz"}
Bodies == {"notJSON", "wrongShape", "series", "mismatched"}

nil == "nil"
NoRequest == [url |-> nil]
NoBody == "nobody"

RECURSIVE SeqsUpTo(_, _)
SeqsUpTo(S, n) ==
  IF n = 0 THEN {<<>>}
  ELSE LET shorter == SeqsUpTo(S, n - 1)
       IN  shorter \cup {Append(s, x) : s \in {t \in shorter : Len(t) = n - 1}, x \in S}

RECURSIVE SumLen(_, _)
SumLen(f, S) ==
  IF S = {} THEN 0
  ELSE LET c == CHOOSE x \in S : TRUE IN Len(f[c]) + SumLen(f, S \ {c})

----------------------------------------------------------------------------
\* Pure functions of the pipeline.

\* newJsonDatasourceInstance, the factory NewJsonDatasource registers: the
\* dynamic type of the instance it returns.
newJsonDatasourceInstance == "*JsonDatasourceInstance"

\* The instance types of the package.  ds.im is an interface field: the
\* manager NewJsonDatasource builds hands out what newJsonDatasourceInstance
\* makes, another manager may hand out the *dataSourceInstance that
\* getInstance and query are written against.
InstanceTypes == {newJsonDatasourceInstance, "*dataSourceInstance"}

\* The checked type assertion of getInstance: instance.(*dataSourceInstance).
AssertionHolds(dynType) == dynType = "*dataSourceInstance"

\* getInstance on what ds.im.Get gave: "err" when Get failed, "panic" when
\* the type assertion fails, else "ok".
getInstance(g) ==
  IF g = "err" THEN "err"
  ELSE IF AssertionHolds(g) THEN "ok" ELSE "panic"

\* time.Time.String()
TimeString(t) == <<"time.String", t>>

\* simplejson.NewJson(q.JSON): the parsed targets, or an error.
NewJson(j) ==
  IF j = ValidJSON THEN [err |-> nil, json |-> <<"targets", j>>]
  ELSE [err |-> "MalformedQuery", json |-> nil]

\* http.NewRequest fails on a URL that does not parse.
URLParses(u) == u = GoodURL \o "/query"

\* createMetricRequest: the RemoteDatasourceRequest, or an error.
createMetricRequest(q, url) ==
  LET jsonQueries == NewJson(q.JSON) IN
  IF jsonQueries.err # nil THEN [err |-> jsonQueries.err, req |-> NoRequest]
  ELSE IF ~URLParses(url \o "/query")
       THEN [err |-> "MalformedQuery", req |-> NoRequest]
       ELSE [err |-> nil,
             req |-> [url     |-> url \o "/query",
                      method  |-> "POST",
                      range   |-> [to   |-> TimeString(q.TimeRange.From),
                                   from |-> TimeString(q.TimeRange.To)],
                      targets |-> jsonQueries.json]]

\* What one ctxhttp.Do + status check + ioutil.ReadAll can come to.
HttpOutcomes(ctxDone) ==
  IF ctxDone THEN {[kind |-> "cancelled", status |-> 0, body |-> NoBody]}
  ELSE {[kind |-> "transport", status |-> 0, body |-> NoBody],
        [kind |-> "status", status |-> 500, body |-> NoBody],
        [kind |-> "read", status |-> 200, body |-> NoBody]}
       \cup {[kind |-> "ok", status |-> 200, body |-> b] : b \in Bodies}

\* res.Status, the status line text of a response.
StatusText(status) ==
  CASE status = 200 -> "200 OK"
    [] status = 500 -> "500 Internal Server Error"
    [] OTHER        -> "000"

\* fmt.Errorf("invalid status code. status: %v", res.Status)
StatusError(status) == "invalid status code. status: " \o StatusText(status)

\* makeHttpRequest: (body, err) for an outcome of the exchange.
makeHttpRequest(o) ==
  CASE o.kind = "cancelled" -> [body |-> NoBody, err |-> "Cancelled"]
    [] o.kind = "transport" -> [body |-> NoBody, err |-> "TransportError"]
    [] o.status # 200       -> [body |-> NoBody, err |-> StatusError(o.status)]
    [] o.kind = "read"      -> [body |-> NoBody, err |-> "TransportError"]
    [] OTHER                -> [body |-> o.body, err |-> nil]

\* json.Unmarshal(body, &responseBody) into []TargetResponseDTO.
Unmarshal(body) == IF body \in {"series", "mismatched"} THEN nil ELSE "DecodeError"

\* A decoder that fills the time column end first.
parseQueryResponse_Swapped(q, body) ==
  IF Unmarshal(body) # nil
    THEN [Error |-> Unmarshal(body), Frames |-> <<>>]
    ELSE [Error |-> nil,
          Frames |-> <<[name   |-> "response",
                        time   |-> <<q.TimeRange.To, q.TimeRange.From>>,
                        values |-> <<10, 20>>]>>]

\* parseQueryResponse: the DataResponse decoded from body for query q.
parseQueryResponse(q, body) ==
  IF Unmarshal(body) # nil
    THEN [Error |-> Unmarshal(body), Frames |-> <<>>]
    ELSE [Error |-> nil,
          Frames |-> <<[name   |-> "response",
                        time   |-> <<q.TimeRange.From, q.TimeRange.To>>,
                        values |-> <<10, 20>>]>>]

\* The tail of query(): what it returns once makeHttpRequest gave (body, err = nil).
queryAfterParse(res, err) ==
  IF res.Error # nil THEN [Error |-> err, Frames |-> <<>>] ELSE res

\* The unit's state after each stage of query().
StateAfterTranslate(err) == IF err # nil THEN "Failed" ELSE "Calling"
\* A unit that goes back to translate again after a failed call.
StateAfterCall_Retry(err) == IF err # nil THEN "Translating" ELSE "Decoding"

\* A unit that makes its call again after a failed call.
StateAfterCall_CallAgain(err) == IF err # nil THEN "Calling" ELSE "Decoding"

StateAfterCall(err) == IF err # nil THEN "Failed" ELSE "Decoding"
StateAfterDecode(parsed) == IF parsed.Error # nil THEN "Failed" ELSE "Succeeded"

----------------------------------------------------------------------------
NoResponse == [Error |-> nil, Frames |-> <<>>]

NewUnit(q) ==
  [q |-> q, st |-> "Created", at |-> "query", remoteDsReq |-> NoRequest,
   body |-> NoBody, status |-> 0, res |-> NoResponse, posts |-> 0, raced |-> FALSE]

Init ==
  /\ im \in InstanceTypes
  /\ settings \in [URL : URLs]
  /\ fatal = FALSE
  /\ pc = [c \in Calls |-> "idle"]
  /\ got = [c \in Calls |-> "none"]
  /\ req = [c \in Calls |-> <<>>]
  /\ cancelled = [c \in Calls |-> FALSE]
  /\ wg = [c \in Calls |-> 0]
  /\ units = [c \in Calls |-> <<>>]
  /\ responses = [c \in Calls |-> <<>>]

\* backend.NewQueryDataResponse(): an empty map.
NewQueryDataResponse == [r \in {} |-> NoResponse]

\* A counter set one too high.
WaitGroupAdd_OneMore(n) == n + 1

\* wg.Add(len(req.Queries)): the counter of a fresh WaitGroup after the Add.
WaitGroupAdd(n) == n

\* ds.im.Get(ctx): an error, or the cached instance.
imGet(ctxOK) == IF ctxOK THEN im ELSE "err"

\* QueryData up to the for loop (lines 106-121).
QueryData(c) ==
  /\ ~fatal
  /\ pc[c] = "idle"
  /\ \A d \in Calls : d < c => pc[d] # "idle"
  /\ \E ctxOK \in BOOLEAN, batch \in SeqsUpTo(Queries, MaxUnits - SumLen(req, Calls)) :
       LET instance == getInstance(imGet(ctxOK)) IN
       /\ got' = [got EXCEPT ![c] = imGet(ctxOK)]
       /\ req' = [req EXCEPT ![c] = batch]
       /\ responses' = [responses EXCEPT ![c] = NewQueryDataResponse]
       /\ pc' = [pc EXCEPT ![c] =
                   CASE instance = "err"   -> "error"
                     [] instance = "panic" -> "panicked"
                     [] Len(batch) = 0     -> "wait"
                     [] OTHER              -> "loop"]
       /\ wg' = [wg EXCEPT ![c] = IF instance = "ok" THEN WaitGroupAdd(Len(batch)) ELSE 0]
  /\ UNCHANGED <<im, settings, fatal, cancelled, units>>

\* One iteration of the for loop: go func(q) {...}(q).
Spawn(c) ==
  /\ ~fatal
  /\ pc[c] = "loop"
  /\ LET i == Len(units[c]) + 1 IN
       /\ units' = [units EXCEPT ![c] = Append(@, NewUnit(req[c][i]))]
       /\ pc' = [pc EXCEPT ![c] = IF i = Len(req[c]) THEN "wait" ELSE "loop"]
  /\ UNCHANGED <<im, settings, fatal, got, req, cancelled, wg, responses>>

\* A join that does not wait for the counter.
WaitReturns_NoJoin(n) == TRUE

\* A join that lets go one unit early.
WaitReturns_OneShort(n) == n <= 1

\* wg.Wait() returns when the counter is zero.
WaitReturns(n) == n = 0

\* wg.Wait() and return responses, nil.
Return(c) ==
  /\ ~fatal
  /\ pc[c] = "wait"
  /\ WaitReturns(wg[c])
  /\ pc' = [pc EXCEPT ![c] = "returned"]
  /\ UNCHANGED <<im, settings, fatal, got, req, cancelled, wg, units, responses>>

Unit(c, i) == units[c][i]
SetUnit(c, i, u) == units' = [units EXCEPT ![c][i] = u]
Spawned(c) == 1 .. Len(units[c])

\* The caller cancels the context of call c.
Cancel(c) ==
  /\ ~fatal
  /\ pc[c] \in {"loop", "wait"}
  /\ ~cancelled[c]
  /\ cancelled' = [cancelled EXCEPT ![c] = TRUE]
  /\ UNCHANGED <<im, settings, fatal, pc, got, req, wg, units, responses>>

\* The goroutine starts and enters ds.query.
StartUnit(c, i) ==
  /\ ~fatal
  /\ Unit(c, i).st = "Created"
  /\ SetUnit(c, i, [Unit(c, i) EXCEPT !.st = "Translating"])
  /\ UNCHANGED <<im, settings, fatal, pc, got, req, cancelled, wg, responses>>

\* query(): createMetricRequest and its error check.
Translate(c, i) ==
  /\ ~fatal
  /\ Unit(c, i).st = "Translating"
  /\ LET u == Unit(c, i)
         r == createMetricRequest(u.q, settings.URL)
     IN  SetUnit(c, i, [u EXCEPT !.st = StateAfterTranslate(r.err),
                                 !.remoteDsReq = r.req,
                                 !.res = IF r.err # nil
                                           THEN [Error |-> r.err, Frames |-> <<>>]
                                           ELSE @,
                                 !.at = IF r.err # nil THEN "assign" ELSE @])
  /\ UNCHANGED <<im, settings, fatal, pc, got, req, cancelled, wg, responses>>

\* query(): makeHttpRequest and its error check.
HttpCall(c, i) ==
  /\ ~fatal
  /\ Unit(c, i).st = "Calling"
  /\ \E o \in HttpOutcomes(cancelled[c]) :
       LET u == Unit(c, i)
           r == makeHttpRequest(o)
       IN  SetUnit(c, i, [u EXCEPT !.st = StateAfterCall(r.err),
                                   !.posts = @ + 1,
                                   !.status = o.status,
                                   !.body = r.body,
                                   !.res = IF r.err # nil
                                             THEN [Error |-> r.err, Frames |-> <<>>]
                                             ELSE @,
                                   !.at = IF r.err # nil THEN "assign" ELSE @])
  /\ UNCHANGED <<im, settings, fatal, pc, got, req, cancelled, wg, responses>>

\* query(): parseQueryResponse and the return.
Decode(c, i) ==
  /\ ~fatal
  /\ Unit(c, i).st = "Decoding"
  /\ LET u == Unit(c, i)
         parsed == parseQueryResponse(u.q, u.body)
     IN  SetUnit(c, i, [u EXCEPT !.st = StateAfterDecode(parsed),
                                 !.res = queryAfterParse(parsed, nil),
                                 !.body = NoBody,
                                 !.at = "assign"])
  /\ UNCHANGED <<im, settings, fatal, pc, got, req, cancelled, wg, responses>>

\* The units of call c that are inside the map assignment.
Writers(c) == {j \in Spawned(c) : Unit(c, j).at = "writing"}

\* responses.Responses[q.RefID] = res begins.  The map is a plain Go map and
\* nothing serializes the goroutines: when another goroutine is inside its
\* own assignment the runtime either detects it and throws, or it does not
\* and both assignments run over the same map.
BeginWrite(c, i) ==
  /\ ~fatal
  /\ Unit(c, i).at = "assign"
  /\ \/ /\ Writers(c) = {}
        /\ SetUnit(c, i, [Unit(c, i) EXCEPT !.at = "writing"])
        /\ UNCHANGED fatal
     \/ /\ Writers(c) # {}
        /\ \/ /\ fatal' = TRUE
              /\ UNCHANGED units
           \/ /\ units' = [units EXCEPT ![c] =
                   [j \in Spawned(c) |->
                      IF j = i THEN [@[j] EXCEPT !.at = "writing", !.raced = TRUE]
                      ELSE IF j \in Writers(c) THEN [@[j] EXCEPT !.raced = TRUE]
                      ELSE @[j]]]
              /\ UNCHANGED fatal
  /\ UNCHANGED <<im, settings, pc, got, req, cancelled, wg, responses>>

\* One map shared by all calls.
ResponsesOf_Shared(c) == 1

\* The map a goroutine of call c writes: the closure captures the responses
\* value its own QueryData invocation created.
ResponsesOf(c) == c

\* m with key k bound to v.
MapSet(m, k, v) == [x \in DOMAIN m \cup {k} |-> IF x = k THEN v ELSE m[x]]

\* The assignment completes.  Alone in the map it stores the entry; after an
\* undetected race it stores it, loses it, or the runtime throws on exit.
EndWrite(c, i) ==
  /\ ~fatal
  /\ Unit(c, i).at = "writing"
  /\ LET u == Unit(c, i)
         stored == /\ responses' = [responses EXCEPT ![ResponsesOf(c)] = MapSet(@, u.q.RefID, u.res)]
                   /\ SetUnit(c, i, [u EXCEPT !.at = "wgDone", !.raced = FALSE])
                   /\ UNCHANGED fatal
     IN  \/ stored
         \/ /\ u.raced
            /\ SetUnit(c, i, [u EXCEPT !.at = "wgDone", !.raced = FALSE])
            /\ UNCHANGED <<fatal, responses>>
         \/ /\ u.raced
            /\ fatal' = TRUE
            /\ UNCHANGED <<units, responses>>
  /\ UNCHANGED <<im, settings, pc, got, req, cancelled, wg>>

\* A unit that signals twice.
WaitGroupDone_Twice(n) == n - 2

\* wg.Done(): the counter after it.
WaitGroupDone(n) == n - 1

\* wg.Done()
Done(c, i) ==
  /\ ~fatal
  /\ Unit(c, i).at = "wgDone"
  /\ wg' = [wg EXCEPT ![c] = WaitGroupDone(@)]
  /\ SetUnit(c, i, [Unit(c, i) EXCEPT !.at = "exit"])
  /\ UNCHANGED <<im, settings, fatal, pc, got, req, cancelled, responses>>

\* The steps of the calls in C and of their units.
NextOf(C) ==
  \/ \E c \in C : QueryData(c)
  \/ \E c \in C : Spawn(c)
  \/ \E c \in C : Return(c)
  \/ \E c \in C : Cancel(c)
  \/ \E c \in C : \E i \in Spawned(c) : StartUnit(c, i)
  \/ \E c \in C : \E i \in Spawned(c) : Translate(c, i)
  \/ \E c \in C : \E i \in Spawned(c) : HttpCall(c, i)
  \/ \E c \in C : \E i \in Spawned(c) : Decode(c, i)
  \/ \E c \in C : \E i \in Spawned(c) : BeginWrite(c, i)
  \/ \E c \in C : \E i \in Spawned(c) : EndWrite(c, i)
  \/ \E c \in C : \E i \in Spawned(c) : Done(c, i)

\* One QueryData call and its units.
Next == NextOf({1})

Spec == Init /\ [][Next]_vars

\* MaxCalls QueryData calls running concurrently.
NextConcurrent == NextOf(Calls)

SpecConcurrent == Init /\ [][NextConcurrent]_vars

\* The program's own steps: everything but the caller's QueryData and Cancel.
ProgramStep ==
  \E c \in Calls :
    \/ Spawn(c)
    \/ Return(c)
    \/ \E i \in Spawned(c) :
         \/ StartUnit(c, i)
         \/ Translate(c, i)
         \/ HttpCall(c, i)
         \/ Decode(c, i)
         \/ BeginWrite(c, i)
         \/ EndWrite(c, i)
         \/ Done(c, i)

\* The Go scheduler runs every runnable goroutine, and httpClient.Timeout
\* ends every exchange: a program step that stays possible is taken.
FairSpec == Spec /\ WF_vars(ProgramStep)

TypeOK ==
  /\ im \in InstanceTypes
  /\ fatal \in BOOLEAN
  /\ \A c \in Calls :
       /\ pc[c] \in {"idle", "loop", "wait", "returned", "error", "panicked"}
       /\ wg[c] \in 0 .. MaxUnits
       /\ Len(units[c]) <= Len(req[c])

----------------------------------------------------------------------------
\* Vocabulary of the properties.

Returned(c) == pc[c] = "returned"
RefIDsOf(batch) == {batch[i].RefID : i \in 1 .. Len(batch)}
DistinctRefIDs(batch) ==
  \A i, j \in 1 .. Len(batch) : i # j => batch[i].RefID # batch[j].RefID
Has(c, r) == r \in DOMAIN responses[c]
IsFailure(res) == res.Error # nil /\ res.Frames = <<>>
IsSuccess(res) == res.Error = nil /\ res.Frames # <<>>
Terminal(st) == st \in {"Succeeded", "Failed"}

----------------------------------------------------------------------------
\* C1: for a batch of N queries with pairwise-distinct reference identifiers,
\* the ResultSet QueryData returns has exactly N entries and its key set is the
\* set of the batch's reference identifiers.
C1_ResultSetComplete ==
  \A c \in Calls :
    Returned(c) /\ DistinctRefIDs(req[c]) =>
      /\ DOMAIN responses[c] = RefIDsOf(req[c])
      /\ Cardinality(DOMAIN responses[c]) = Len(req[c])

\* C2: QueryData returns only when every one of the N units has been spawned,
\* has produced its result and has signalled completion; a failed unit does
\* not make it return earlier.
C2_ReturnsAfterAllUnits ==
  \A c \in Calls :
    Returned(c) =>
      /\ Len(units[c]) = Len(req[c])
      /\ \A i \in Spawned(c) : Terminal(Unit(c, i).st) /\ Unit(c, i).at = "exit"

\* C2 witness: a call has returned from a batch of two in which one unit
\* failed and the other succeeded.
C2_Witness ==
  \E c \in Calls :
    /\ Returned(c)
    /\ Len(req[c]) = 2
    /\ \E i, j \in Spawned(c) : Unit(c, i).st = "Failed" /\ Unit(c, j).st = "Succeeded"

\* C3: no two units of one batch are ever inside their write into the shared
\* responses map at the same time (the map is a plain Go map, which does not
\* support concurrent writes, so the writes have to be serialized).
C3_WritesSerialized ==
  \A c \in Calls : Cardinality(Writers(c)) <= 1

\* C4: every QueryResult in a returned ResultSet has exactly one variant
\* populated, a non-empty error or decoded frames, never both and never neither.
C4_ExactlyOneVariant ==
  \A c \in Calls :
    Returned(c) =>
      \A r \in DOMAIN responses[c] :
        IsFailure(responses[c][r]) \/ IsSuccess(responses[c][r])

\* C5: failure isolation.  A top-level error comes only from instance
\* resolution, never from a unit; and in a returned ResultSet (distinct
\* identifiers) every unit's slot holds that unit's own result, a failed
\* unit's slot holding its error, so that no unit's failure shows in or
\* removes a sibling's result.
C5_FailureIsolation ==
  \A c \in Calls :
    /\ pc[c] = "error" => got[c] = "err" /\ units[c] = <<>>
    /\ Returned(c) /\ DistinctRefIDs(req[c]) =>
         \A i \in Spawned(c) :
           /\ Has(c, Unit(c, i).q.RefID)
           /\ responses[c][Unit(c, i).q.RefID] = Unit(c, i).res
           /\ Unit(c, i).st = "Failed" => IsFailure(responses[c][Unit(c, i).q.RefID])

\* C6: QueryData has exactly two outcomes.  When im.Get fails it returns the
\* top-level error and spawns no unit; when im.Get succeeds it goes on to the
\* fan-out and the join and returns the ResultSet with no error.  Nothing else
\* ends a call.
C6_TwoOutcomes ==
  \A c \in Calls :
    /\ got[c] = "err" => pc[c] = "error" /\ units[c] = <<>>
    /\ got[c] \notin {"none", "err"} => pc[c] \in {"loop", "wait", "returned"}
    /\ pc[c] = "error" => got[c] = "err"
    /\ pc[c] \in {"loop", "wait"} => ENABLED ProgramStep

\* A unit's HTTP call ends in this step.
CallEnds(c, i) ==
  /\ i \in Spawned(c)
  /\ Unit(c, i).st = "Calling"
  /\ units'[c][i].st # "Calling"

\* C7: once the batch context is cancelled, every HTTP call still in flight
\* ends as a failure carrying the cancellation, units that had finished keep
\* their result, and the call goes on to return.
C7_CancelAborts ==
  /\ [][\A c \in Calls : \A i \in Spawned(c) :
          /\ cancelled[c] /\ CallEnds(c, i) =>
                units'[c][i].st = "Failed" /\ units'[c][i].res.Error = "Cancelled"
          /\ Terminal(Unit(c, i).st) =>
                units'[c][i].st = Unit(c, i).st /\ units'[c][i].res = Unit(c, i).res]_vars
  /\ \A c \in Calls :
       (cancelled[c] /\ \E i \in Spawned(c) : Unit(c, i).st = "Calling")
         ~> Returned(c)

\* C8: with every HTTP call returning and fair scheduling, every QueryData
\* call that was made comes to its end: the join and the return, or the
\* top-level error.  And while a unit's call has not returned the join is closed.
C8_Terminates ==
  /\ [](\A c \in Calls :
         (\E i \in Spawned(c) : Unit(c, i).st = "Calling") => ~ENABLED Return(c))
  /\ \A c \in Calls : (pc[c] # "idle") ~> (pc[c] \in {"returned", "error"})

\* The transitions of the unit state machine.
UnitTransitions ==
  {<<"Created", "Translating">>,
   <<"Translating", "Calling">>, <<"Translating", "Failed">>,
   <<"Calling", "Decoding">>, <<"Calling", "Failed">>,
   <<"Decoding", "Succeeded">>, <<"Decoding", "Failed">>}

\* C9: every unit starts in Created and moves only along Created ->
\* Translating -> Calling -> Decoding -> {Succeeded | Failed}, Failed being
\* entered from Translating, Calling or Decoding and Succeeded from Decoding
\* only; Succeeded and Failed are never left and no step goes back.
C9_UnitStateMachine ==
  [][\A c \in Calls :
       /\ \A i \in Spawned(c) :
            units'[c][i].st # Unit(c, i).st =>
              <<Unit(c, i).st, units'[c][i].st>> \in UnitTransitions
       /\ \A i \in (1 .. Len(units'[c])) \ Spawned(c) :
            units'[c][i].st = "Created"]_vars

\* C9 witness: one batch holds a unit that failed in Translating (no call
\* made) and one that failed in Decoding (a 200 answer, body rejected).
C9_Witness ==
  \E c \in Calls : \E i, j \in Spawned(c) :
    /\ Unit(c, i).st = "Failed" /\ Unit(c, i).posts = 0
    /\ Unit(c, j).st = "Failed" /\ Unit(c, j).status = 200
    /\ Unit(c, j).res.Error = nil

\* C10: when one query's upstream call answers with a status other than 200
\* and another's with 200 and a body that decodes, the returned ResultSet
\* holds under the first identifier a failure carrying that status and no
\* frames, and under the second the decoded frames.
C10_StatusAndSuccess ==
  \A c \in Calls :
    Returned(c) =>
      \A i, j \in Spawned(c) :
        LET u == Unit(c, i)
            v == Unit(c, j)
        IN  /\ u.q.RefID # v.q.RefID
            /\ u.status \notin {0, 200}
            /\ v.status = 200 /\ v.st = "Succeeded"
            => /\ Has(c, u.q.RefID) /\ Has(c, v.q.RefID)
               /\ responses[c][u.q.RefID] =
                    [Error |-> StatusError(u.status), Frames |-> <<>>]
               /\ responses[c][v.q.RefID] = parseQueryResponse(v.q, "series")

\* C11: the request built for a query carries the query's range start under
\* range.from and its range end under range.to, the query's targets unchanged
\* under targets, and is a POST to <baseURL>/query.
C11_RequestPayload ==
  \A c \in Calls : \A i \in Spawned(c) :
    LET u == Unit(c, i) IN
    u.remoteDsReq # NoRequest =>
      /\ u.remoteDsReq.range.from = TimeString(u.q.TimeRange.From)
      /\ u.remoteDsReq.range.to = TimeString(u.q.TimeRange.To)
      /\ u.remoteDsReq.targets = NewJson(u.q.JSON).json
      /\ u.remoteDsReq.method = "POST"
      /\ u.remoteDsReq.url = settings.URL \o "/query"

\* A unit's decode of the body b ends in this step.
Decodes(c, i, b) ==
  /\ i \in Spawned(c)
  /\ Unit(c, i).st = "Decoding"
  /\ Unit(c, i).body = b
  /\ units'[c][i].st # "Decoding"

\* C12: a body that is valid JSON with column arrays of mismatched lengths
\* makes that query's result a failure carrying the decode error, and leaves
\* the other units' results as they were; every success result has a time
\* column as long as each of its other columns.
C12_MismatchedLengths ==
  /\ [][\A c \in Calls : \A i \in Spawned(c) :
          Decodes(c, i, "mismatched") =>
            /\ units'[c][i].st = "Failed"
            /\ units'[c][i].res = [Error |-> "DecodeError", Frames |-> <<>>]
            /\ \A j \in Spawned(c) \ {i} : units'[c][j].res = Unit(c, j).res]_vars
  /\ [](\A c \in Calls : \A i \in Spawned(c) :
          \A k \in 1 .. Len(Unit(c, i).res.Frames) :
            Len(Unit(c, i).res.Frames[k].time) = Len(Unit(c, i).res.Frames[k].values))

\* The results the units of call c have computed for identifier r.
ResultsFor(c, r) ==
  {Unit(c, i).res : i \in {j \in Spawned(c) : Unit(c, j).q.RefID = r /\ Terminal(Unit(c, j).st)}}

\* C13: with QueryData calls running concurrently on the same settings and
\* the same HTTP client, every entry of a call's ResultSet is a result one of
\* its own units computed for that identifier, and a ResultSet changes only
\* in a step in which a unit of its own call completes its write.
C13_NoCrossBatchWrites ==
  /\ [](\A c \in Calls : \A r \in DOMAIN responses[c] :
          responses[c][r] \in ResultsFor(c, r))
  /\ [][\A c \in Calls :
          responses'[c] # responses[c] =>
            \E i \in Spawned(c) :
              Unit(c, i).at = "writing" /\ units'[c][i].at = "wgDone"]_vars

\* C13 witness: two calls have returned, both with a query A, and their
\* ResultSets hold different results under A.
C13_Witness ==
  \E c, d \in Calls :
    /\ c # d /\ Returned(c) /\ Returned(d)
    /\ "A" \in DOMAIN responses[c] /\ "A" \in DOMAIN responses[d]
    /\ responses[c]["A"] # responses[d]["A"]

\* C14: a query causes at most one HTTP attempt, none when its translation
\* failed and exactly one once its call has ended; nothing is retried.
C14_OneAttempt ==
  \A c \in Calls : \A i \in Spawned(c) :
    LET u == Unit(c, i) IN
    /\ u.posts <= 1
    /\ u.remoteDsReq = NoRequest => u.posts = 0
    /\ u.remoteDsReq # NoRequest /\ u.st # "Calling" => u.posts = 1

\* C14 witness: a returned batch with one unit whose translation failed and
\* one whose call failed in transport.
C14_Witness ==
  \E c \in Calls : \E i, j \in Spawned(c) :
    /\ Returned(c)
    /\ Unit(c, i).res.Error = "MalformedQuery" /\ Unit(c, i).posts = 0
    /\ Unit(c, j).res.Error = "TransportError" /\ Unit(c, j).posts = 1

AtOrder ==
  {<<"query", "assign">>, <<"assign", "writing">>,
   <<"writing", "wgDone">>, <<"wgDone", "exit">>}

\* C17: the ResultSet does not change once QueryData has returned it.  Every
\* unit runs its assignment into the map once, after query() and before its
\* wg.Done(); the counter goes down only in the Done of a unit that has
\* completed its assignment; with distinct identifiers an entry that is in
\* the map is never written again.
C17_ImmutableAfterReturn ==
  [][\A c \in Calls :
       /\ Returned(c) => responses'[c] = responses[c]
       /\ \A i \in Spawned(c) :
            /\ units'[c][i].at # Unit(c, i).at =>
                 <<Unit(c, i).at, units'[c][i].at>> \in AtOrder
            /\ Unit(c, i).at \in {"query", "assign"} =>
                 wg'[c] = wg[c] \/ units'[c][i].at = Unit(c, i).at
       /\ wg'[c] < wg[c] =>
            \E i \in Spawned(c) : Unit(c, i).at = "wgDone" /\ units'[c][i].at = "exit"
       /\ DistinctRefIDs(req[c]) =>
            \A r \in DOMAIN responses[c] :
              r \in DOMAIN responses'[c] /\ responses'[c][r] = responses[c][r]]_vars

\* C17 witness: a call has returned a ResultSet of two entries.
C17_Witness ==
  \E c \in Calls : Returned(c) /\ Cardinality(DOMAIN responses[c]) = 2

\* C18: a call whose im.Get gave the instance newJsonDatasourceInstance makes
\* passes getInstance's type assertion and goes on to the fan-out; it does
\* not panic.
C18_FactoryInstanceAccepted ==
  \A c \in Calls :
    got[c] = newJsonDatasourceInstance =>
      /\ AssertionHolds(got[c])
      /\ pc[c] \in {"loop", "wait", "returned"}

\* C19: a returned call whose batch repeats an identifier has run one unit
\* per query, all of them through wg.Done; its ResultSet has one entry per
\* distinct identifier, fewer than N, each the result of one of the units
\* with that identifier.
C19_DuplicateRefIDs ==
  \A c \in Calls :
    Returned(c) /\ ~DistinctRefIDs(req[c]) =>
      /\ Len(units[c]) = Len(req[c])
      /\ \A i \in Spawned(c) : Unit(c, i).at = "exit"
      /\ DOMAIN responses[c] = RefIDsOf(req[c])
      /\ Cardinality(DOMAIN responses[c]) < Len(req[c])
      /\ \A r \in DOMAIN responses[c] : responses[c][r] \in ResultsFor(c, r)

\* The units of call c that have gone through wg.Done.
Signalled(c) == {i \in Spawned(c) : Unit(c, i).at = "exit"}

\* C20: from the wg.Add on, the counter is N minus the number of units that
\* have signalled completion: N while no unit is spawned, never negative, and
\* 0 when QueryData has passed the join.
C20_JoinCounter ==
  \A c \in Calls :
    pc[c] \in {"loop", "wait", "returned"} =>
      /\ wg[c] = Len(req[c]) - Cardinality(Signalled(c))
      /\ wg[c] >= 0
      /\ units[c] = <<>> => wg[c] = Len(req[c])
      /\ Returned(c) => wg[c] = 0 /\ Signalled(c) = 1 .. Len(req[c])

\* C20 witness: of a batch of two, one unit has signalled and the other has
\* not, and the counter is 1.
C20_Witness ==
  \E c \in Calls :
    Len(req[c]) = 2 /\ Cardinality(Signalled(c)) = 1 /\ wg[c] = 1 /\ pc[c] = "wait"

====
